---------------------------- MODULE Spec2Model ----------------------------
(***************************************************************************)
(* A model of riseworks-batcher: the CSV ingestor (datasource.py), the     *)
(* Frame signer (frame_signer.py), the Rise API client (rise_client.py)    *)
(* and the command-line driver (main.py).                                  *)
(*                                                                         *)
(* Strings the program inspects character by character (amounts,          *)
(* descriptions, RiseIds) are sequences of one-character strings.          *)
(* Python floats are IEEE-754 binary64 values, computed here with          *)
(* arbitrary-precision naturals (sequences of base-2^15 limbs) because     *)
(* the mantissa does not fit the 32-bit integers of TLC.                   *)
(***************************************************************************)
EXTENDS Integers, Sequences, FiniteSets, TLC

VARIABLES
    pc,            \* position of the script
    exit_code,     \* process exit code: -1 while running, then 0 or 1
    error,         \* what ended the run ("" while none)
    retries,       \* depth of the recursion of _establish_conn_to_frame
    account,       \* <<>> or <<address>>: cached_property FrameSigner.account
    auth_msg,      \* <<>> or <<msg>>: local msg of RiseAPI._auth
    auth_sig,      \* <<>> or <<sig>>: local sig of RiseAPI._auth
    token,         \* <<>> or <<t>>: RiseAPI.token
    rows,          \* rows of the CSV file
    row_i,         \* number of rows payments_from_csv has consumed
    csv_payments,  \* local list payments of payments_from_csv
    payments,      \* payments of main: <<>> until payments_from_csv returns
    teams,         \* teams still to be asked for their members
    acc,           \* local list payees of the property RiseAPI.payees
    payees,        \* <<>> or <<list>>: cached value of RiseAPI.payees
    p_i,           \* number of payments the confirmation loop has passed
    request,       \* <<>> or <<data>>: local request of batch_payment
    signature,     \* <<>> or <<sig>>: local signature of batch_payment
    trace,         \* history: HTTP exchanges, signer calls and confirmations, in order
    fn_in,         \* argument of the function applied alone (<<>> in a run of main)
    fn_out         \* <<>> or <<result>> of that function

vars == <<pc, exit_code, error, retries, account, auth_msg, auth_sig, token, rows,
          row_i, csv_payments, payments, teams, acc, payees, p_i, request,
          signature, trace, fn_in, fn_out>>

-----------------------------------------------------------------------------
(* Characters and strings *)

Digits == {"0", "1", "2", "3", "4", "5", "6", "7", "8", "9"}

HexChars == Digits \cup {"a", "b", "c", "d", "e", "f", "A", "B", "C", "D", "E", "F"}

DigitVal(c) ==
    CASE c = "0" -> 0 [] c = "1" -> 1 [] c = "2" -> 2 [] c = "3" -> 3
      [] c = "4" -> 4 [] c = "5" -> 5 [] c = "6" -> 6 [] c = "7" -> 7
      [] c = "8" -> 8 [] c = "9" -> 9

DigitChar(d) == <<"0", "1", "2", "3", "4", "5", "6", "7", "8", "9">>[d + 1]

Rep(c, n) == [i \in 1..n |-> c]

RECURSIVE Concat(_)
Concat(ss) == IF ss = <<>> THEN <<>> ELSE Head(ss) \o Concat(Tail(ss))

RECURSIVE NatStr(_)
NatStr(n) == IF n < 10 THEN <<DigitChar(n)>> ELSE NatStr(n \div 10) \o <<DigitChar(n % 10)>>

\* str(int)
Str(n) == IF n < 0 THEN <<"-">> \o NatStr(-n) ELSE NatStr(n)

-----------------------------------------------------------------------------
(* Arbitrary-precision naturals: little-endian limbs in base 2^LimbBits, no high
   zero limb.  A limb times a limb plus a carry stays below 2^31. *)

LimbBits == 16 - 1

Limb == 2 ^ LimbBits

RECURSIVE BNStrip(_)
BNStrip(x) == IF x # <<>> /\ x[Len(x)] = 0 THEN BNStrip(SubSeq(x, 1, Len(x) - 1)) ELSE x

RECURSIVE BNMulCarry(_, _, _, _)
BNMulCarry(x, k, i, c) ==
    IF i > Len(x)
    THEN IF c = 0 THEN <<>> ELSE <<c % Limb>> \o BNMulCarry(x, k, i, c \div Limb)
    ELSE LET v == x[i] * k + c IN <<v % Limb>> \o BNMulCarry(x, k, i + 1, v \div Limb)

\* x * k for 1 <= k <= Limb
BNMulS(x, k) == BNMulCarry(x, k, 1, 0)

\* x + d for 0 <= d < Limb
BNAddS(x, d) == BNMulCarry(x, 1, 1, d)

RECURSIVE BNDivRem(_, _, _, _)
BNDivRem(x, k, i, r) ==
    IF i = 0 THEN [q |-> <<>>, r |-> r]
    ELSE LET cur  == r * Limb + x[i]
             rest == BNDivRem(x, k, i - 1, cur % k)
         IN  [q |-> rest.q \o <<cur \div k>>, r |-> rest.r]

\* quotient and remainder of x by k, for 1 <= k <= Limb
BNDivS(x, k) == LET d == BNDivRem(x, k, Len(x), 0) IN [q |-> BNStrip(d.q), r |-> d.r]

BNOdd(x) == x # <<>> /\ x[1] % 2 = 1

\* number of binary digits of x
BNBitLen(x) ==
    IF x = <<>> THEN 0
    ELSE LimbBits * (Len(x) - 1) + Cardinality({k \in 0..(LimbBits - 1) : 2 ^ k <= x[Len(x)]})

\* x * 2^n
BNShl(x, n) ==
    IF x = <<>> THEN <<>>
    ELSE [i \in 1..(n \div LimbBits) |-> 0] \o BNMulS(x, 2 ^ (n % LimbBits))

\* floor(x / 2^n), and whether any bit was shifted out
BNShr(x, n) ==
    LET k == n \div LimbBits
        d == BNDivS(SubSeq(x, k + 1, Len(x)), 2 ^ (n % LimbBits))
    IN  IF k >= Len(x) THEN [q |-> <<>>, sticky |-> x # <<>>]
        ELSE [q |-> d.q, sticky |-> d.r # 0 \/ \E i \in 1..k : x[i] # 0]

RECURSIVE BNTimes10(_, _)
\* x * 10^n, four decimal places at a time
BNTimes10(x, n) ==
    IF n = 0 THEN x
    ELSE LET k == IF n < 4 THEN n ELSE 4 IN BNTimes10(BNMulS(x, 10 ^ k), n - k)

RECURSIVE BNToInt(_)
BNToInt(x) == IF x = <<>> THEN 0 ELSE x[1] + Limb * BNToInt(Tail(x))

RECURSIVE BNOfDigits(_, _)
\* the natural written by the decimal digits ds after the digits that gave a,
\* four digits at a time
BNOfDigits(ds, a) ==
    IF ds = <<>> THEN a
    ELSE LET k == IF Len(ds) < 4 THEN Len(ds) ELSE 4
             v == IF k = 1 THEN DigitVal(ds[1])
                  ELSE IF k = 2 THEN DigitVal(ds[1]) * 10 + DigitVal(ds[2])
                  ELSE IF k = 3 THEN DigitVal(ds[1]) * 100 + DigitVal(ds[2]) * 10 + DigitVal(ds[3])
                  ELSE DigitVal(ds[1]) * 1000 + DigitVal(ds[2]) * 100
                       + DigitVal(ds[3]) * 10 + DigitVal(ds[4])
         IN  BNOfDigits(SubSeq(ds, k + 1, Len(ds)), BNAddS(BNMulS(a, 10 ^ k), v))

-----------------------------------------------------------------------------
(* IEEE-754 binary64, as Python's float: a finite value is sign * m * 2^e with
   m < 2^DBL_MANT_DIG after rounding to nearest, ties to even *)

USDC_DECIMALS == 6

DBL_MANT_DIG == 53

RECURSIVE DivPow10(_, _, _)
\* floor(x / 10^n), and whether anything was cut off; four decimal places at a time
DivPow10(x, n, sticky) ==
    IF n = 0 THEN [q |-> x, sticky |-> sticky]
    ELSE LET k == IF n < 4 THEN n ELSE 4
             d == BNDivS(x, 10 ^ k)
         IN  DivPow10(d.q, n - k, sticky \/ d.r # 0)

\* x (with sticky: something below x was cut off already) shifted right by t bits
\* so that it fits the mantissa, rounded to nearest, ties to even
RoundToMant(x, sticky) ==
    LET t    == BNBitLen(x) - DBL_MANT_DIG
        y    == BNShr(x, t - 1)
        m    == BNShr(y.q, 1).q
        up   == BNOdd(y.q) /\ (sticky \/ y.sticky \/ BNOdd(m))
    IN  IF t <= 0 THEN [m |-> x, t |-> 0]
        ELSE [m |-> IF up THEN BNAddS(m, 1) ELSE m, t |-> t]

\* the double nearest to a / 10^f (a: natural, f: number of fraction digits):
\* a is scaled by 2^s so that the quotient has more bits than the mantissa
DoubleOfDecimal(a, f) ==
    LET need == DBL_MANT_DIG + BNBitLen(BNTimes10(<<1>>, f)) + 1 - BNBitLen(a)
        s    == IF need > 0 THEN need ELSE 0
        dv   == DivPow10(BNShl(a, s), f, FALSE)
        sr   == RoundToMant(dv.q, dv.sticky)
    IN  IF a = <<>> THEN [m |-> <<>>, e |-> 0] ELSE [m |-> sr.m, e |-> sr.t - s]

\* float * int for the int 10**n (exact as a float for the n used): one rounding
DoubleTimesPow10(d, n) ==
    LET sr == RoundToMant(BNTimes10(d.m, n), FALSE)
    IN  [m |-> sr.m, e |-> d.e + sr.t]

\* int(float) of a non-negative finite float: the fraction is dropped
DoubleTrunc(d) == BNToInt(IF d.e >= 0 THEN BNShl(d.m, d.e) ELSE BNShr(d.m, -d.e).q)

\* float(str) for strings over digits, ".", "+", "-" and letters: an optional sign,
\* then "nan", "inf", or digits with at most one "." and at least one digit.
\* (Exponents, underscores and surrounding blanks are outside the input alphabet.)
ParseFloat(s) ==
    LET signed == s # <<>> /\ s[1] \in {"+", "-"}
        neg    == s # <<>> /\ s[1] = "-"
        body   == IF signed THEN Tail(s) ELSE s
        dots   == {i \in 1..Len(body) : body[i] = "."}
        ds     == SelectSeq(body, LAMBDA c : c \in Digits)
        nfrac  == IF dots = {} THEN 0 ELSE Len(body) - (CHOOSE i \in dots : TRUE)
    IN  IF body = <<"n", "a", "n">> THEN [kind |-> "nan", neg |-> neg, a |-> <<>>, f |-> 0]
        ELSE IF body = <<"i", "n", "f">> THEN [kind |-> "inf", neg |-> neg, a |-> <<>>, f |-> 0]
        ELSE IF /\ \A i \in 1..Len(body) : body[i] \in Digits \cup {"."}
                /\ Cardinality(dots) <= 1
                /\ ds # <<>>
        THEN [kind |-> "finite", neg |-> neg, a |-> BNOfDigits(ds, <<>>), f |-> nfrac]
        ELSE [kind |-> "ValueError", neg |-> neg, a |-> <<>>, f |-> 0]

\* payment_amount: USDCInWei(int(float(amount) * 10**USDC_DECIMALS)); only float()'s
\* ValueError is caught (log.error "Invalid amount", sys.exit(1)); int() of nan or
\* inf raises outside the try.
payment_amount(amount) ==
    LET p == ParseFloat(amount)
        v == DoubleTrunc(DoubleTimesPow10(DoubleOfDecimal(p.a, p.f), USDC_DECIMALS))
    IN  CASE p.kind = "ValueError" -> [ok |-> FALSE, amount |-> 0, error |-> "InvalidAmount"]
          [] p.kind = "nan" -> [ok |-> FALSE, amount |-> 0, error |-> "ValueError"]
          [] p.kind = "inf" -> [ok |-> FALSE, amount |-> 0, error |-> "OverflowError"]
          [] OTHER -> [ok |-> TRUE, amount |-> IF p.neg THEN -v ELSE v, error |-> ""]

-----------------------------------------------------------------------------
(* find_rise_id *)

HexLen == 40

\* the pattern 0x[0-9a-fA-F]{40} matches text at position i
MatchAt(text, i) ==
    /\ i + 1 + HexLen <= Len(text)
    /\ text[i] = "0"
    /\ text[i + 1] = "x"
    /\ \A k \in 2..(1 + HexLen) : text[i + k] \in HexChars

RECURSIVE FindAllFrom(_, _)
\* re.findall from position pos: the leftmost match, then the search goes on
\* behind that match
FindAllFrom(text, pos) ==
    LET at == {i \in pos..Len(text) : MatchAt(text, i)}
        i  == CHOOSE j \in at : \A k \in at : j <= k
    IN  IF at = {} THEN <<>>
        ELSE <<SubSeq(text, i, i + 1 + HexLen)>> \o FindAllFrom(text, i + 2 + HexLen)

findall(text) == FindAllFrom(text, 1)

\* find_rise_id: log.error and sys.exit(1) unless findall gives exactly one match
find_rise_id(text) ==
    LET matches == findall(text)
    IN  IF matches = <<>> THEN [ok |-> FALSE, rise_id |-> <<>>, error |-> "RiseId not found"]
        ELSE IF Len(matches) > 1
        THEN [ok |-> FALSE, rise_id |-> <<>>, error |-> "Multiple RiseIds found"]
        ELSE [ok |-> TRUE, rise_id |-> matches[Len(matches)], error |-> ""]

-----------------------------------------------------------------------------
(* Bounds of the model *)

\* rows of a CSV file
MaxRows == 2

\* salts are drawn from 0..MaxSalt, not from 0..2^32 - 1
MaxSalt == 1

\* times the operator answers yes to the retry prompt
MaxRetries == 1

\* pieces a text given to find_rise_id is put together from
MaxChunks == 3

\* the whole part of an amount given to payment_amount is in 0..MaxWhole
MaxWhole == 2

\* digits behind the point of an amount given to payment_amount
MaxFracDigits == 7

-----------------------------------------------------------------------------
(* Payment, requests and responses *)

\* Payment(recipient, amount): __post_init__ sets salt to random.getrandbits(32);
\* bits is the value drawn
Payment(recipient, amount, bits) == [recipient |-> recipient, amount |-> amount, salt |-> bits]

\* dataclasses.asdict
asdict(p) == [recipient |-> p.recipient, amount |-> p.amount, salt |-> p.salt]

RECURSIVE SumAmounts(_)
\* sum(p.amount for p in payments)
SumAmounts(ps) == IF ps = <<>> THEN 0 ELSE Head(ps).amount + SumAmounts(Tail(ps))

\* RiseAPI._auth_headers
_auth_headers(tok) == <<[scheme |-> "Bearer", credentials |-> tok[1]]>>

\* the headers without the Authorization header
Headers_NoAuthorization(auth, tok) ==
    [content_type |-> "application/json", accept |-> "application/json",
     authorization |-> <<>>]

\* the headers _request sends
Headers(auth, tok) ==
    [content_type |-> "application/json", accept |-> "application/json",
     authorization |-> IF auth THEN _auth_headers(tok) ELSE <<>>]

\* RiseAPI._raise_for_status and the decoding in _request: the data of a
\* response, or the RuntimeError raised
_request(resp) ==
    IF resp.status # "ok"
    THEN [ok |-> FALSE, data |-> <<>>,
          error |-> IF resp.json /\ "message" \in DOMAIN resp.body
                    THEN "RuntimeError: Unable to request: message"
                    ELSE "RuntimeError: Unable to request"]
    ELSE IF ~resp.json
    THEN [ok |-> FALSE, data |-> <<>>, error |-> "RuntimeError: Unable to decode response"]
    ELSE IF "data" \notin DOMAIN resp.body
    THEN [ok |-> FALSE, data |-> <<>>, error |-> "RuntimeError: Unable to find data field"]
    ELSE [ok |-> TRUE, data |-> <<resp.body.data>>, error |-> ""]

\* the json of _get_batch_payment_message
PutBody(wallet, rise_id, ps) ==
    [wallet |-> wallet, rise_id |-> rise_id, total_amount |-> Str(SumAmounts(ps)),
     payments |-> [i \in 1..Len(ps) |-> asdict(ps[i])]]

\* the json of _send_batch_payment with the payments built anew
PostBody_PaymentsRebuilt(wallet, rise_id, ps, req, sig) ==
    [wallet |-> wallet, rise_id |-> rise_id, total_amount |-> Str(SumAmounts(ps)),
     payments |-> [i \in 1..Len(ps) |-> asdict(Payment(ps[i].recipient, ps[i].amount, 0))],
     request |-> req, signature |-> sig]

\* the json of _send_batch_payment
PostBody(wallet, rise_id, ps, req, sig) ==
    [wallet |-> wallet, rise_id |-> rise_id, total_amount |-> Str(SumAmounts(ps)),
     payments |-> [i \in 1..Len(ps) |-> asdict(ps[i])],
     request |-> req, signature |-> sig]

\* RiseAPI.allowed_recipients
allowed_recipients(ps) == [i \in 1..Len(ps) |-> ps[i].riseId]

\* x in list
In(x, list) == \E i \in 1..Len(list) : list[i] = x

\* RiseAPI.get_payee: the first payee with that riseId, or ValueError
get_payee(ps, rise_id) ==
    LET at == {i \in 1..Len(ps) : ps[i].riseId = rise_id}
    IN  IF at = {} THEN [ok |-> FALSE, payee |-> <<>>]
        ELSE [ok |-> TRUE, payee |-> <<ps[CHOOSE i \in at : \A j \in at : i <= j]>>]

HttpEv(method, endpoint, headers, body, resp) ==
    [ev |-> "http", method |-> method, endpoint |-> endpoint, headers |-> headers,
     body |-> body, resp |-> resp]

SignEv(op, acct, msg, result) ==
    [ev |-> op, account |-> acct, msg |-> msg, result |-> result]

\* a confirmation prompt: kind "payment" (idx: the number shown in the table,
\* subject: the RiseId shown) or "summary"
PromptEv(kind, idx, subject, answer) ==
    [ev |-> "prompt", kind |-> kind, idx |-> idx, subject |-> subject, answer |-> answer]

-----------------------------------------------------------------------------
(* The environment: what the file, the signer and the API may hold or answer *)

Entity == "0xEntity"

Wallet == "0xWallet"

AddrA == <<"0", "x", "A", "b", "C", "d", "E", "f", "0", "1", "2", "3", "4", "5",
           "6", "7", "8", "9", "a", "B", "c", "D", "e", "F", "0", "1", "2", "3",
           "4", "5", "6", "7", "8", "9", "a", "B", "C", "D", "e", "F", "0", "1">>

\* AddrA in lower case: another string
AddrALower == <<"0", "x", "a", "b", "c", "d", "e", "f", "0", "1", "2", "3", "4", "5",
                "6", "7", "8", "9", "a", "b", "c", "d", "e", "f", "0", "1", "2", "3",
                "4", "5", "6", "7", "8", "9", "a", "b", "c", "d", "e", "f", "0", "1">>

AddrB == <<"0", "x">> \o Rep("b", HexLen)

PayTo == <<"p", "a", "y", " ", "t", "o", " ">>

\* Descriptions with one address
Descriptions ==
    { PayTo \o AddrA,
      AddrB \o <<" ", "f", "e", "e">> }

\* amounts float() takes
Amounts == { <<"1", ".", "5">>, <<"-", "2", ".", "0", "1">> }

\* rows that pass
GoodRows == [outgoing_amount : Amounts, outgoing_token : {"DAI"}, Description : Descriptions]

\* rows that do not: the token, the amount, no address, two addresses, all at once
BadRows ==
    LET good == [outgoing_amount |-> <<"1", ".", "5">>, outgoing_token |-> "DAI",
                 Description |-> PayTo \o AddrA]
    IN  { [good EXCEPT !.outgoing_token = "USDC"],
          [good EXCEPT !.outgoing_amount = <<"a", "b", "c">>],
          [good EXCEPT !.Description = <<"n", "o", " ", "i", "d">>],
          [good EXCEPT !.Description = AddrA \o <<" ">> \o AddrB],
          [outgoing_amount |-> <<>>, outgoing_token |-> "ETH",
           Description |-> <<>>] }

RowSet == GoodRows \cup BadRows

Files == UNION {[1..n -> RowSet] : n \in 0..MaxRows}

Member(id, rise_id) ==
    [id |-> id, alias |-> "", firstname |-> "F", middlename |-> "", lastname |-> "L",
     riseId |-> rise_id]

MemberLists ==
    { <<Member("m1", AddrA)>>, <<Member("m2", AddrB), Member("m3", AddrALower)>> }

Team(id) == [id |-> id, name |-> "team", riseId |-> "0xTeam"]

TeamLists == { <<>>, <<Team("t1")>>, <<Team("t1"), Team("t2")>> }

Ok(d) == [status |-> "ok", json |-> TRUE, body |-> [data |-> d]]

Failures ==
    { [status |-> "error", json |-> TRUE, body |-> [message |-> "denied"]],
      [status |-> "error", json |-> FALSE, body |-> [text |-> "<html>"]],
      [status |-> "ok", json |-> FALSE, body |-> [text |-> "<html>"]],
      [status |-> "ok", json |-> TRUE, body |-> [detail |-> "x"]] }

ChallengeResponses == Failures \cup {Ok([message |-> "Sign in"]), Ok([nonce |-> "n"])}

TokenResponses == Failures \cup {Ok([token |-> "jwt"]), Ok([expires |-> "never"])}

TeamsResponses == Failures \cup {Ok(t) : t \in TeamLists}

MembersResponses == Failures \cup {Ok(m) : m \in MemberLists}

\* the typed data the API asks the wallet to sign
TypedData ==
    [types |-> "EIP712", primaryType |-> "BatchPay", domain |-> "rise",
     message |-> [batch |-> "b1", nonce |-> "7"]]

PutResponses == Failures \cup {Ok(TypedData), Ok([types |-> "EIP712"])}

PostResponses == Failures \cup {Ok([hash |-> "0xtx"])}

\* what the wallet answers: a signature, or the ValueError of a refusal
SignResults == {[ok |-> TRUE, sig |-> "0xsig"], [ok |-> FALSE, sig |-> ""]}

-----------------------------------------------------------------------------
(* A run of main.py *)

Init ==
    /\ pc = "start"
    /\ exit_code = -1
    /\ error = ""
    /\ retries = 0
    /\ account = <<>>
    /\ auth_msg = <<>>
    /\ auth_sig = <<>>
    /\ token = <<>>
    /\ rows = <<>>
    /\ row_i = 0
    /\ csv_payments = <<>>
    /\ payments = <<>>
    /\ teams = <<>>
    /\ acc = <<>>
    /\ payees = <<>>
    /\ p_i = 0
    /\ request = <<>>
    /\ signature = <<>>
    /\ trace = <<>>
    /\ fn_in = <<>>
    /\ fn_out = <<>>

\* sys.exit(1), or an exception nothing catches
Exit(err) == pc' = "exit" /\ exit_code' = 1 /\ error' = err

Goto(label) == pc' = label /\ UNCHANGED <<exit_code, error>>

\* main: the command line, the file and the environment
Startup ==
    /\ pc = "start"
    /\ \E argv_ok, file_ok, env_ok \in BOOLEAN :
         IF ~argv_ok THEN Exit("Usage: python -m src.main <payments.csv>")
         ELSE IF ~file_ok THEN Exit("File does not exist")
         ELSE IF ~env_ok THEN Exit("RuntimeError: Required variable not found")
         ELSE Goto("connect")
    /\ UNCHANGED <<retries, account, auth_msg, auth_sig, token, rows, row_i,
                   csv_payments, payments, teams, acc, payees, p_i, request,
                   signature, trace, fn_in, fn_out>>

\* FrameSigner.__init__ and _establish_conn_to_frame: retries is the depth of
\* the recursion, which unwinds when the connection is there
Connect ==
    /\ pc = "connect"
    /\ \E connected \in BOOLEAN :
         IF connected
         THEN retries' = 0 /\ Goto("auth_challenge")
         ELSE \E answer \in BOOLEAN :
                /\ answer => retries < MaxRetries
                /\ IF answer
                   THEN retries' = retries + 1 /\ Goto("connect")
                   ELSE Exit("Script aborted") /\ UNCHANGED retries
    /\ UNCHANGED <<account, auth_msg, auth_sig, token, rows, row_i, csv_payments,
                   payments, teams, acc, payees, p_i, request, signature, trace,
                   fn_in, fn_out>>

\* RiseAPI._get_sign_message, with the first use of FrameSigner.account
AuthChallenge ==
    /\ pc = "auth_challenge"
    /\ \E accounts \in {<<>>, <<Wallet>>}, resp \in ChallengeResponses :
         IF accounts = <<>>
         THEN Exit("Expected account to be unlocked")
              /\ UNCHANGED <<account, auth_msg, trace>>
         ELSE /\ account' = <<accounts[1]>>
              /\ trace' = Append(trace, HttpEv("GET", "auth", Headers(FALSE, token),
                                               [wallet |-> accounts[1]], resp))
              /\ LET r == _request(resp)
                 IN  IF ~r.ok THEN Exit(r.error) /\ UNCHANGED auth_msg
                     ELSE IF "message" \notin DOMAIN r.data[1]
                     THEN Exit("KeyError: message") /\ UNCHANGED auth_msg
                     ELSE auth_msg' = <<r.data[1].message>> /\ Goto("auth_sign")
    /\ UNCHANGED <<retries, auth_sig, token, rows, row_i, csv_payments, payments,
                   teams, acc, payees, p_i, request, signature, fn_in, fn_out>>

\* FrameSigner.sign, called by RiseAPI._auth
AuthSign ==
    /\ pc = "auth_sign"
    /\ \E res \in SignResults :
         /\ trace' = Append(trace, SignEv("sign", account[1], auth_msg[1], res))
         /\ IF res.ok THEN auth_sig' = <<res.sig>> /\ Goto("auth_token")
            ELSE Exit("Error signing message") /\ UNCHANGED auth_sig
    /\ UNCHANGED <<retries, account, auth_msg, token, rows, row_i, csv_payments,
                   payments, teams, acc, payees, p_i, request, signature, fn_in,
                   fn_out>>

\* RiseAPI._get_token, and the assignment of self.token in _auth
AuthToken ==
    /\ pc = "auth_token"
    /\ \E resp \in TokenResponses :
         /\ trace' = Append(trace, HttpEv("POST", "auth", Headers(FALSE, token),
                                          [wallet |-> account[1], message |-> auth_msg[1],
                                           signature |-> auth_sig[1]], resp))
         /\ LET r == _request(resp)
            IN  IF ~r.ok THEN Exit(r.error) /\ UNCHANGED token
                ELSE IF "token" \notin DOMAIN r.data[1]
                THEN Exit("KeyError: token") /\ UNCHANGED token
                ELSE token' = <<r.data[1].token>> /\ Goto("read_csv")
    /\ UNCHANGED <<retries, account, auth_msg, auth_sig, rows, row_i, csv_payments,
                   payments, teams, acc, payees, p_i, request, signature, fn_in,
                   fn_out>>

\* payments_from_csv: the file is read, all its rows at once
ReadCsv ==
    /\ pc = "read_csv"
    /\ rows' \in Files
    /\ Goto("ingest")
    /\ UNCHANGED <<retries, account, auth_msg, auth_sig, token, row_i, csv_payments,
                   payments, teams, acc, payees, p_i, request, signature, trace,
                   fn_in, fn_out>>

\* the loop over the rows leaving a bad row out instead of ending the run
IngestRow_BadRowDropped ==
    /\ pc = "ingest"
    /\ row_i < Len(rows)
    /\ LET row == rows[row_i + 1]
           amt == payment_amount(row.outgoing_amount)
           rid == find_rise_id(row.Description)
       IN  IF row.outgoing_token # "DAI" \/ ~amt.ok \/ ~rid.ok
           THEN row_i' = row_i + 1 /\ Goto("ingest") /\ UNCHANGED csv_payments
           ELSE \E bits \in 0..MaxSalt :
                  /\ csv_payments' = Append(csv_payments,
                                            Payment(rid.rise_id, amt.amount, bits))
                  /\ row_i' = row_i + 1
                  /\ Goto("ingest")
    /\ UNCHANGED <<retries, account, auth_msg, auth_sig, token, rows, payments,
                   teams, acc, payees, p_i, request, signature, trace, fn_in, fn_out>>

\* payments_from_csv: one turn of the loop over the rows
IngestRow ==
    /\ pc = "ingest"
    /\ row_i < Len(rows)
    /\ LET row == rows[row_i + 1]
           amt == payment_amount(row.outgoing_amount)
           rid == find_rise_id(row.Description)
       IN  IF row.outgoing_token # "DAI"
           THEN Exit("Unsupported token") /\ UNCHANGED <<row_i, csv_payments>>
           ELSE IF ~amt.ok THEN Exit(amt.error) /\ UNCHANGED <<row_i, csv_payments>>
           ELSE IF ~rid.ok THEN Exit(rid.error) /\ UNCHANGED <<row_i, csv_payments>>
           ELSE \E bits \in 0..MaxSalt :
                  /\ csv_payments' = Append(csv_payments,
                                            Payment(rid.rise_id, amt.amount, bits))
                  /\ row_i' = row_i + 1
                  /\ Goto("ingest")
    /\ UNCHANGED <<retries, account, auth_msg, auth_sig, token, rows, payments,
                   teams, acc, payees, p_i, request, signature, trace, fn_in, fn_out>>

\* payments_from_csv returns, main binds payments
IngestReturn ==
    /\ pc = "ingest"
    /\ row_i = Len(rows)
    /\ payments' = csv_payments
    /\ Goto("loop")
    /\ UNCHANGED <<retries, account, auth_msg, auth_sig, token, rows, row_i,
                   csv_payments, teams, acc, payees, p_i, request, signature, trace,
                   fn_in, fn_out>>

\* the first use of api.allowed_recipients computes RiseAPI.payees: get_teams
FetchTeams ==
    /\ pc = "loop"
    /\ p_i < Len(payments)
    /\ payees = <<>>
    /\ \E resp \in TeamsResponses :
         /\ trace' = Append(trace, HttpEv("GET", "teams", Headers(TRUE, token), <<>>, resp))
         /\ LET r == _request(resp)
            IN  IF ~r.ok THEN Exit(r.error) /\ UNCHANGED <<teams, acc, payees>>
                ELSE IF r.data[1] = <<>>
                THEN payees' = <<<<>>>> /\ Goto("loop") /\ UNCHANGED <<teams, acc>>
                ELSE teams' = r.data[1] /\ acc' = <<>> /\ Goto("members")
                     /\ UNCHANGED payees
    /\ UNCHANGED <<retries, account, auth_msg, auth_sig, token, rows, row_i,
                   csv_payments, payments, p_i, request, signature, fn_in, fn_out>>

\* RiseAPI.payees: get_team_members of the next team; behind the last team the
\* list is cached
FetchMembers ==
    /\ pc = "members"
    /\ \E resp \in MembersResponses :
         /\ trace' = Append(trace, HttpEv("GET", "talent", Headers(TRUE, token),
                                          [team_id |-> Head(teams).id], resp))
         /\ LET r == _request(resp)
            IN  IF ~r.ok THEN Exit(r.error) /\ UNCHANGED <<teams, acc, payees>>
                ELSE /\ acc' = acc \o r.data[1]
                     /\ teams' = Tail(teams)
                     /\ IF Len(teams) = 1
                        THEN payees' = <<acc \o r.data[1]>> /\ Goto("loop")
                        ELSE Goto("members") /\ UNCHANGED payees
    /\ UNCHANGED <<retries, account, auth_msg, auth_sig, token, rows, row_i,
                   csv_payments, payments, p_i, request, signature, fn_in, fn_out>>

\* the membership test without the raise: the loop goes on to the next payment
RecipientNotPayee_Skipped ==
    /\ pc = "loop"
    /\ p_i < Len(payments)
    /\ payees # <<>>
    /\ ~In(payments[p_i + 1].recipient, allowed_recipients(payees[1]))
    /\ p_i' = p_i + 1
    /\ Goto("loop")
    /\ UNCHANGED <<retries, account, auth_msg, auth_sig, token, rows, row_i,
                   csv_payments, payments, teams, acc, payees, request,
                   signature, trace, fn_in, fn_out>>

\* main: the recipient of the payment at hand is not in api.allowed_recipients
RecipientNotPayee ==
    /\ pc = "loop"
    /\ p_i < Len(payments)
    /\ payees # <<>>
    /\ ~In(payments[p_i + 1].recipient, allowed_recipients(payees[1]))
    /\ Exit("RuntimeError: Recipient is not a payee")
    /\ UNCHANGED <<retries, account, auth_msg, auth_sig, token, rows, row_i,
                   csv_payments, payments, teams, acc, payees, p_i, request,
                   signature, trace, fn_in, fn_out>>

\* main: the payee of the payment at hand is shown and confirmed
ConfirmPayment ==
    /\ pc = "loop"
    /\ p_i < Len(payments)
    /\ payees # <<>>
    /\ In(payments[p_i + 1].recipient, allowed_recipients(payees[1]))
    /\ IF ~get_payee(payees[1], payments[p_i + 1].recipient).ok
       THEN Exit("ValueError: Payee not found") /\ UNCHANGED <<p_i, trace>>
       ELSE \E answer \in BOOLEAN :
              /\ trace' = Append(trace, PromptEv("payment", p_i + 1, payments[p_i + 1].recipient, answer))
              /\ IF answer THEN p_i' = p_i + 1 /\ Goto("loop")
                 ELSE Exit("Payment cancelled by user") /\ UNCHANGED p_i
    /\ UNCHANGED <<retries, account, auth_msg, auth_sig, token, rows, row_i,
                   csv_payments, payments, teams, acc, payees, request, signature,
                   fn_in, fn_out>>

\* the summary prompt with its answer ignored
ConfirmBatch_AnswerIgnored ==
    /\ pc = "loop"
    /\ p_i = Len(payments)
    /\ \E answer \in BOOLEAN :
         /\ trace' = Append(trace, PromptEv("summary", 0, <<>>, answer))
         /\ Goto("put")
    /\ UNCHANGED <<retries, account, auth_msg, auth_sig, token, rows, row_i,
                   csv_payments, payments, teams, acc, payees, p_i, request,
                   signature, fn_in, fn_out>>

\* main: the batch summary is shown and confirmed
ConfirmBatch ==
    /\ pc = "loop"
    /\ p_i = Len(payments)
    /\ \E answer \in BOOLEAN :
         /\ trace' = Append(trace, PromptEv("summary", 0, <<>>, answer))
         /\ IF answer THEN Goto("put") ELSE Exit("Payment cancelled by user")
    /\ UNCHANGED <<retries, account, auth_msg, auth_sig, token, rows, row_i,
                   csv_payments, payments, teams, acc, payees, p_i, request,
                   signature, fn_in, fn_out>>

\* RiseAPI._get_batch_payment_message
BatchPut ==
    /\ pc = "put"
    /\ \E resp \in PutResponses :
         /\ trace' = Append(trace, HttpEv("PUT", "batch-pay", Headers(TRUE, token),
                                          PutBody(account[1], Entity, payments), resp))
         /\ LET r == _request(resp)
            IN  IF ~r.ok THEN Exit(r.error) /\ UNCHANGED request
                ELSE request' = r.data /\ Goto("sign_typed")
    /\ UNCHANGED <<retries, account, auth_msg, auth_sig, token, rows, row_i,
                   csv_payments, payments, teams, acc, payees, p_i, signature,
                   fn_in, fn_out>>

\* signing the message member where the response has one
SignedPayload_MessageOnly(req) == IF "message" \in DOMAIN req THEN req.message ELSE req

\* what batch_payment hands to sign_typed
SignedPayload(req) == req

\* what batch_payment hands to _send_batch_payment as request
SubmittedRequest(req) == req.message

\* sign_typed with the refusal of the wallet swallowed
SignTyped_RefusalIgnored ==
    /\ pc = "sign_typed"
    /\ \E res \in SignResults :
         /\ trace' = Append(trace, SignEv("sign_typed", account[1],
                                          SignedPayload(request[1]), res))
         /\ signature' = <<res.sig>>
         /\ Goto("post")
    /\ UNCHANGED <<retries, account, auth_msg, auth_sig, token, rows, row_i,
                   csv_payments, payments, teams, acc, payees, p_i, request,
                   fn_in, fn_out>>

\* FrameSigner.sign_typed, called by batch_payment
SignTyped ==
    /\ pc = "sign_typed"
    /\ \E res \in SignResults :
         /\ trace' = Append(trace, SignEv("sign_typed", account[1],
                                          SignedPayload(request[1]), res))
         /\ IF res.ok THEN signature' = <<res.sig>> /\ Goto("post")
            ELSE Exit("Error signing message") /\ UNCHANGED signature
    /\ UNCHANGED <<retries, account, auth_msg, auth_sig, token, rows, row_i,
                   csv_payments, payments, teams, acc, payees, p_i, request,
                   fn_in, fn_out>>

\* RiseAPI._send_batch_payment, and the end of main
BatchPost ==
    /\ pc = "post"
    /\ IF "message" \notin DOMAIN request[1]
       THEN Exit("KeyError: message") /\ UNCHANGED trace
       ELSE \E resp \in PostResponses :
              /\ trace' = Append(trace,
                     HttpEv("POST", "batch-pay", Headers(TRUE, token),
                            PostBody(account[1], Entity, payments,
                                     SubmittedRequest(request[1]), signature[1]), resp))
              /\ IF ~_request(resp).ok THEN Exit(_request(resp).error)
                 ELSE pc' = "done" /\ exit_code' = 0 /\ UNCHANGED error
    /\ UNCHANGED <<retries, account, auth_msg, auth_sig, token, rows, row_i,
                   csv_payments, payments, teams, acc, payees, p_i, request,
                   signature, fn_in, fn_out>>

Next ==
    \/ Startup
    \/ Connect
    \/ AuthChallenge
    \/ AuthSign
    \/ AuthToken
    \/ ReadCsv
    \/ IngestRow
    \/ IngestReturn
    \/ FetchTeams
    \/ FetchMembers
    \/ RecipientNotPayee
    \/ ConfirmPayment
    \/ ConfirmBatch
    \/ BatchPut
    \/ SignTyped
    \/ BatchPost

Spec == Init /\ [][Next]_vars

-----------------------------------------------------------------------------
(* payment_amount and find_rise_id on their own: the argument is drawn, the
   function is applied *)

Idle ==
    /\ exit_code = -1
    /\ error = ""
    /\ retries = 0
    /\ account = <<>>
    /\ auth_msg = <<>>
    /\ auth_sig = <<>>
    /\ token = <<>>
    /\ rows = <<>>
    /\ row_i = 0
    /\ csv_payments = <<>>
    /\ payments = <<>>
    /\ teams = <<>>
    /\ acc = <<>>
    /\ payees = <<>>
    /\ p_i = 0
    /\ request = <<>>
    /\ signature = <<>>
    /\ trace = <<>>

FracDigits == {"0", "1", "5"}

NotNumbers == { <<"a", "b", "c">>, <<>>, <<"-">>, <<"1", ".", "2", ".", "3">>,
                <<"n", "a", "n">>, <<"i", "n", "f">> }

AmountInputs ==
    { sign \o NatStr(w) \o frac :
        sign \in {<<>>, <<"-">>},
        w \in 0..MaxWhole,
        frac \in {<<>>} \cup
                 {<<".">> \o d : d \in UNION {[1..n -> FracDigits] : n \in 1..MaxFracDigits}} }
    \cup NotNumbers

AmountInit == pc = "payment_amount" /\ fn_in \in AmountInputs /\ fn_out = <<>> /\ Idle

ApplyPaymentAmount ==
    /\ pc = "payment_amount"
    /\ fn_out = <<>>
    /\ fn_out' = <<payment_amount(fn_in)>>
    /\ UNCHANGED <<pc, exit_code, error, retries, account, auth_msg, auth_sig, token,
                   rows, row_i, csv_payments, payments, teams, acc, payees, p_i,
                   request, signature, trace, fn_in>>

SpecAmount == AmountInit /\ [][ApplyPaymentAmount]_vars

Chunks ==
    { PayTo, <<"0", "x">>, <<"0", "X">>, Rep("a", HexLen - 1), AddrA, <<" ">> }

FindInputs == {Concat(cs) : cs \in UNION {[1..n -> Chunks] : n \in 0..MaxChunks}}

FindInit == pc = "find_rise_id" /\ fn_in \in FindInputs /\ fn_out = <<>> /\ Idle

ApplyFindRiseId ==
    /\ pc = "find_rise_id"
    /\ fn_out = <<>>
    /\ fn_out' = <<find_rise_id(fn_in)>>
    /\ UNCHANGED <<pc, exit_code, error, retries, account, auth_msg, auth_sig, token,
                   rows, row_i, csv_payments, payments, teams, acc, payees, p_i,
                   request, signature, trace, fn_in>>

SpecFind == FindInit /\ [][ApplyFindRiseId]_vars

-----------------------------------------------------------------------------
(* The properties.  trace is the record of the confirmations the run has
   asked of the operator and of its calls of the wallet and the API, in order. *)

IsHttp(e, method, endpoint) ==
    e.ev = "http" /\ e.method = method /\ e.endpoint = endpoint

IsBatchPay(e) == e.ev = "http" /\ e.endpoint = "batch-pay"

IsBatchStep(e) == IsBatchPay(e) \/ e.ev = "sign_typed"

IsConfirm(e) == e.ev = "prompt" /\ e.kind \in {"payment", "summary"}

IsCall(e) == e.ev # "prompt"

BatchSteps == SelectSeq(trace, IsBatchStep)

Confirms == SelectSeq(trace, IsConfirm)

Calls == SelectSeq(trace, IsCall)

Succeeded(e) == _request(e.resp).ok

DataOf(e) == _request(e.resp).data[1]

Allowed(p) ==
    payees # <<>> /\ \E j \in 1..Len(payees[1]) : payees[1][j].riseId = p.recipient

\* C1: once a batch-pay request or a typed-data signing request has been
\* issued, the recipient of every payment is, as the same string, among the
\* allowed recipients; every payment the loop has passed is an allowed one; and
\* with a payment whose recipient is not allowed nothing of the batch is ever
\* issued, the run being in the loop or ended with exit code 1.
C1_OnlyAllowedRecipients ==
    /\ BatchSteps # <<>> => \A i \in 1..Len(payments) : Allowed(payments[i])
    /\ \A i \in 1..p_i : Allowed(payments[i])
    /\ (payees # <<>> /\ \E i \in 1..Len(payments) : ~Allowed(payments[i]))
         => /\ BatchSteps = <<>>
            /\ pc \in {"loop", "exit"}
            /\ pc = "exit" => exit_code = 1

\* the first payment was confirmed, the second names a recipient that is not a
\* payee: the run is over and nothing of the batch was issued
C1_Witness ==
    /\ pc = "exit"
    /\ error = "RuntimeError: Recipient is not a payee"
    /\ Len(payments) = 2
    /\ p_i = 1
    /\ ~Allowed(payments[2])
    /\ BatchSteps = <<>>

\* the confirmations a run that reaches batch_payment has asked for
ExpectedConfirms ==
    [i \in 1..(Len(payments) + 1) |->
        IF i <= Len(payments)
        THEN PromptEv("payment", i, find_rise_id(rows[i].Description).rise_id, TRUE)
        ELSE PromptEv("summary", 0, <<>>, TRUE)]

\* C2: the confirmations asked so far are the per-payment ones in the order of
\* the rows and then the summary, each but the last answered yes; when a step
\* of batch_payment has been issued they are all there, all answered yes, and
\* all before it; a confirmation answered no is the last thing the run did, the
\* run has ended with exit code 1 and nothing of the batch was issued.
C2_ConfirmedBeforeBatch ==
    /\ \A i \in 1..Len(Confirms) :
         /\ i <= Len(payments) + 1
         /\ [Confirms[i] EXCEPT !.answer = TRUE] = ExpectedConfirms[i]
         /\ i < Len(Confirms) => Confirms[i].answer
    /\ BatchSteps # <<>> =>
         /\ Confirms = ExpectedConfirms
         /\ \A j, k \in 1..Len(trace) :
              IsConfirm(trace[j]) /\ IsBatchStep(trace[k]) => j < k
    /\ \A k \in 1..Len(trace) :
         (IsConfirm(trace[k]) /\ ~trace[k].answer)
           => k = Len(trace) /\ pc = "exit" /\ exit_code = 1 /\ BatchSteps = <<>>

\* two payments were confirmed, then the summary, and the PUT was issued
C2_Witness ==
    /\ Len(payments) = 2
    /\ Len(Confirms) = 3
    /\ BatchSteps # <<>>

\* C3, as stated: what sign_typed is given is the message member of the data
\* of the PUT response before it, and the request of every POST body is that
\* same object.
C3_SignsMessageOfResponse ==
    \A k \in 1..Len(trace) :
      trace[k].ev = "sign_typed" =>
        /\ k > 1
        /\ IsHttp(trace[k - 1], "PUT", "batch-pay")
        /\ Succeeded(trace[k - 1])
        /\ "message" \in DOMAIN DataOf(trace[k - 1])
             => /\ trace[k].msg = DataOf(trace[k - 1]).message
                /\ \A j \in 1..Len(trace) :
                     IsHttp(trace[j], "POST", "batch-pay")
                       => trace[j].body.request = trace[k].msg

\* C3, amended: what sign_typed is given is the whole data of the PUT response
\* before it; the request of the POST body is the message member of that data,
\* and its signature is what sign_typed returned.
C3_SignsWholeResponse ==
    /\ \A k \in 1..Len(trace) :
         trace[k].ev = "sign_typed" =>
           /\ k > 1
           /\ IsHttp(trace[k - 1], "PUT", "batch-pay")
           /\ Succeeded(trace[k - 1])
           /\ trace[k].msg = DataOf(trace[k - 1])
    /\ \A j \in 1..Len(trace) :
         IsHttp(trace[j], "POST", "batch-pay") =>
           /\ j > 2
           /\ trace[j - 1].ev = "sign_typed"
           /\ trace[j - 1].result.ok
           /\ IsHttp(trace[j - 2], "PUT", "batch-pay")
           /\ Succeeded(trace[j - 2])
           /\ "message" \in DOMAIN DataOf(trace[j - 2])
           /\ trace[j].body.request = DataOf(trace[j - 2]).message
           /\ trace[j].body.signature = trace[j - 1].result.sig

\* the PUT answered with typed data, the wallet signed and the POST was issued
C3_Witness ==
    \E j \in 1..Len(trace) :
      /\ IsHttp(trace[j], "POST", "batch-pay")
      /\ trace[j - 1].msg # trace[j].body.request

\* C4: the calls of a run begin with the GET of the auth challenge for the
\* wallet, then sign of the message it returned, then the POST of wallet,
\* message and signature, none of the two requests with an Authorization
\* header; a later step is there only if the one before succeeded, and a failed
\* one is the last call of a run that ended with exit code 1 and no token; the
\* token is stored exactly when the POST returned one and is that one; every
\* request after these carries Authorization: Bearer with the stored token and
\* is not an auth request.
C4_AuthThenBearer ==
    LET H == Calls
    IN  /\ Len(H) >= 1 =>
             /\ IsHttp(H[1], "GET", "auth")
             /\ H[1].headers.authorization = <<>>
             /\ H[1].body = [wallet |-> account[1]]
             /\ (~Succeeded(H[1]) \/ "message" \notin DOMAIN DataOf(H[1]))
                  => Len(H) = 1 /\ pc = "exit" /\ exit_code = 1
        /\ Len(H) >= 2 =>
             /\ H[2].ev = "sign"
             /\ H[2].account = account[1]
             /\ H[2].msg = DataOf(H[1]).message
             /\ ~H[2].result.ok => Len(H) = 2 /\ pc = "exit" /\ exit_code = 1
        /\ Len(H) >= 3 =>
             /\ IsHttp(H[3], "POST", "auth")
             /\ H[3].headers.authorization = <<>>
             /\ H[3].body = [wallet |-> account[1], message |-> H[2].msg,
                             signature |-> H[2].result.sig]
             /\ (~Succeeded(H[3]) \/ "token" \notin DOMAIN DataOf(H[3]))
                  => Len(H) = 3 /\ pc = "exit" /\ exit_code = 1
        /\ token # <<>> <=>
             (Len(H) >= 3 /\ Succeeded(H[3]) /\ "token" \in DOMAIN DataOf(H[3]))
        /\ token # <<>> => token[1] = DataOf(H[3]).token
        /\ \A k \in 4..Len(H) :
             H[k].ev = "http" =>
               /\ H[k].endpoint # "auth"
               /\ token # <<>>
               /\ H[k].headers.authorization =
                    <<[scheme |-> "Bearer", credentials |-> token[1]]>>

\* the client was constructed and the teams were asked for
C4_Witness ==
    \E k \in 1..Len(trace) : IsHttp(trace[k], "GET", "teams") /\ token # <<>>

\* C5: the steps of batch_payment issued so far are a beginning of PUT,
\* sign_typed, POST, each once and nothing of the run between or after them;
\* sign_typed is there only after a PUT that returned data, the POST only
\* after sign_typed returned a signature; once a step is issued the run is at
\* the next step, done, or over with exit code 1; a failed step is the last one
\* and the run is over with exit code 1; the run reports success only with all
\* three steps succeeded.
C5_PutSignPostOnce ==
    LET B == BatchSteps
    IN  /\ Len(B) <= 3
        /\ \A k \in 1..Len(B) : trace[Len(trace) - Len(B) + k] = B[k]
        /\ Len(B) >= 1 => IsHttp(B[1], "PUT", "batch-pay")
        /\ Len(B) >= 2 => B[2].ev = "sign_typed" /\ Succeeded(B[1])
        /\ Len(B) >= 3 => IsHttp(B[3], "POST", "batch-pay") /\ B[2].result.ok
        /\ Len(B) >= 1 =>
             \/ pc = "exit" /\ exit_code = 1
             \/ pc = "sign_typed" /\ Len(B) = 1 /\ exit_code # 0
             \/ pc = "post" /\ Len(B) = 2 /\ exit_code # 0
             \/ pc = "done" /\ Len(B) = 3
        /\ \A k \in 1..Len(B) :
             (IF B[k].ev = "http" THEN ~Succeeded(B[k]) ELSE ~B[k].result.ok)
               => k = Len(B) /\ pc = "exit" /\ exit_code = 1
        /\ (pc = "done" \/ exit_code = 0) =>
             /\ pc = "done" /\ exit_code = 0
             /\ Len(B) = 3
             /\ Succeeded(B[1]) /\ B[2].result.ok /\ Succeeded(B[3])

\* the PUT and the signing succeeded, the POST failed: the run is over, failed
C5_Witness ==
    /\ Len(BatchSteps) = 3
    /\ ~Succeeded(BatchSteps[3])
    /\ pc = "exit"
    /\ exit_code = 1

\* a number written in decimal digits, with or without sign and point
Numeric(s) ==
    LET body == IF s # <<>> /\ s[1] \in {"-", "+"} THEN Tail(s) ELSE s
        dots == {i \in 1..Len(body) : body[i] = "."}
    IN  /\ \A i \in 1..Len(body) : body[i] \in Digits \cup {"."}
        /\ Cardinality(dots) <= 1
        /\ Len(body) > Cardinality(dots)

\* the row passes: the token is DAI, the amount is numeric, and the scan of the
\* Description yields one address
RowValid(row) ==
    /\ row.outgoing_token = "DAI"
    /\ Numeric(row.outgoing_amount)
    /\ Len(findall(row.Description)) = 1

\* payments_from_csv has returned and main has not gone on
JustReturned == rows # <<>> /\ pc = "loop" /\ p_i = 0 /\ payees = <<>>

\* C6: of a file with a row that does not pass, the rows before the first such
\* row are all the loop ever takes, nothing is returned, and the run, once
\* over, is over with exit code 1; of a file whose rows all pass, what is
\* returned holds one Payment for each row, and at the return they are in the
\* order of the rows, each with the address and the amount of its row.
C6_AllOrNothing ==
    LET bad == {i \in 1..Len(rows) : ~RowValid(rows[i])}
    IN  /\ bad # {} =>
             /\ \A i \in bad : row_i < i
             /\ Len(csv_payments) = row_i
             /\ payments = <<>>
             /\ pc \in {"ingest", "exit"}
             /\ pc = "exit" => exit_code = 1
        /\ (bad = {} /\ pc \notin {"read_csv", "ingest"}) => Len(payments) = Len(rows)
        /\ (bad = {} /\ JustReturned) =>
             /\ \A i \in 1..Len(rows) :
                  /\ payments[i].recipient = findall(rows[i].Description)[1]
                  /\ payments[i].amount = payment_amount(rows[i].outgoing_amount).amount

\* the first row passed, the second did not: the run is over and nothing was
\* returned
C6_Witness ==
    /\ Len(rows) = 2
    /\ RowValid(rows[1])
    /\ ~RowValid(rows[2])
    /\ row_i = 1
    /\ pc = "exit"
    /\ exit_code = 1
    /\ payments = <<>>

\* C8: every Payment of the ingestor, and every payment of a batch-pay body,
\* has an amount of zero or more.
C8_AmountsNonNegative ==
    /\ \A i \in 1..Len(csv_payments) : csv_payments[i].amount >= 0
    /\ \A k \in 1..Len(trace) :
         IsBatchPay(trace[k]) =>
           \A i \in 1..Len(trace[k].body.payments) : trace[k].body.payments[i].amount >= 0

\* where in the text the address pattern occurs
Occurrences(text) == {i \in 1..Len(text) : MatchAt(text, i)}

\* C7: find_rise_id returns a recipient exactly for a text with one
\* occurrence of the address pattern, and the recipient is the text of that
\* occurrence, its case kept; with no occurrence or more than one the run ends.
C7_ExactlyOneOccurrence ==
    (pc = "find_rise_id" /\ fn_out # <<>>) =>
      LET occ == Occurrences(fn_in)
      IN  /\ fn_out[1].ok <=> Cardinality(occ) = 1
          /\ fn_out[1].ok =>
               \A i \in occ : fn_out[1].rise_id = SubSeq(fn_in, i, i + HexLen + 1)

RECURSIVE DecValue(_)
\* the number a string of digits writes
DecValue(ds) ==
    IF ds = <<>> THEN 0
    ELSE 10 * DecValue(SubSeq(ds, 1, Len(ds) - 1)) + DigitVal(ds[Len(ds)])

\* n is d * 10^6 rounded to a nearest integer, d the number the numeric string
\* s writes (a tie may go either way)
IsRounded(n, s) ==
    LET neg    == s[1] = "-"
        body   == IF s[1] \in {"-", "+"} THEN Tail(s) ELSE s
        dots   == {i \in 1..Len(body) : body[i] = "."}
        dot    == IF dots = {} THEN Len(body) + 1 ELSE CHOOSE i \in dots : TRUE
        whole  == SubSeq(body, 1, dot - 1)
        frac   == SubSeq(body, dot + 1, Len(body))
        f      == Len(frac)
        e      == IF f > USDC_DECIMALS THEN f ELSE USDC_DECIMALS
        scaled == DecValue(whole \o frac) * 10 ^ (e - f)
        unit   == 10 ^ (e - USDC_DECIMALS)
        mag    == IF neg THEN -n ELSE n
        diff   == IF mag * unit >= scaled THEN mag * unit - scaled ELSE scaled - mag * unit
    IN  2 * diff <= unit

\* C9: for a numeric string payment_amount returns the amount times 10^6,
\* rounded; for a string that is no number (nan and inf left aside) the run
\* ends with the invalid amount error.
C9_RoundsToMicroUnits ==
    (pc = "payment_amount" /\ fn_out # <<>>) =>
      IF Numeric(fn_in)
      THEN fn_out[1].ok /\ IsRounded(fn_out[1].amount, fn_in)
      ELSE fn_in \in {<<"n", "a", "n">>, <<"i", "n", "f">>}
           \/ (~fn_out[1].ok /\ fn_out[1].error = "InvalidAmount")

RECURSIVE Total(_)
\* the sum of the amounts
Total(ps) == IF ps = <<>> THEN 0 ELSE ps[1].amount + Total(Tail(ps))

\* the integer a string writes
IntOfStr(s) == IF s[1] = "-" THEN -DecValue(Tail(s)) ELSE DecValue(s)

\* every batch-pay body holds the payments of the ingestor, as they were
\* made, and their sum, and so do the PUT and the POST body hold the same
BodiesCarryIngested ==
    \A k \in 1..Len(trace) :
      IsBatchPay(trace[k]) =>
        /\ Len(trace[k].body.payments) = Len(csv_payments)
        /\ \A i \in 1..Len(csv_payments) :
             /\ trace[k].body.payments[i].recipient = csv_payments[i].recipient
             /\ trace[k].body.payments[i].amount = csv_payments[i].amount
             /\ trace[k].body.payments[i].salt = csv_payments[i].salt
        /\ IntOfStr(trace[k].body.total_amount) = Total(csv_payments)
        /\ \A j \in 1..Len(trace) :
             IsBatchPay(trace[j]) =>
               /\ trace[j].body.payments = trace[k].body.payments
               /\ trace[j].body.total_amount = trace[k].body.total_amount

\* C10: no step changes a Payment that was made, nor the list main holds once
\* it is returned, which is the list of the ingestor; and after every step the
\* PUT and the POST body hold these payments, recipient, amount and salt, in
\* their order, and the sum of their amounts.
C10_PaymentsFixed ==
    [][ /\ \A i \in 1..Len(csv_payments) :
             Len(csv_payments') >= i /\ csv_payments'[i] = csv_payments[i]
        /\ payments # <<>> => payments' = payments /\ payments = csv_payments
        /\ BodiesCarryIngested' ]_vars

\* two payments of different salt were sent in the PUT and in the POST
C10_Witness ==
    /\ Len(payments) = 2
    /\ payments[1].salt # payments[2].salt
    /\ \E k \in 1..Len(trace) : IsHttp(trace[k], "POST", "batch-pay")

=============================================================================
